---- MODULE Spec2Model ----
(***************************************************************************)
(* Model of mqtt_app.py: a broker thread (start_mqtt, with the paho        *)
(* callbacks on_connect / on_message / on_subscribe) and the telemetry     *)
(* publisher loop (publish_thread) that start_router_app runs on the main  *)
(* thread.                                                                 *)
(***************************************************************************)
EXTENDS Integers, Sequences, FiniteSets, TLC

(***************************************************************************)
(* Bounds of the model.                                                    *)
(***************************************************************************)
\* connection attempts (initial connect and reconnects) the network makes
MaxConnects == 2

(***************************************************************************)
(* Program constants.                                                      *)
(***************************************************************************)
\* the three settings.*_TOPIC names (their strings live in settings.py)
GPS_TOPIC == "GPS_TOPIC"
MODEM_TEMP_TOPIC == "MODEM_TEMP_TOPIC"
WAN_CONNECTION_STATE_TOPIC == "WAN_CONNECTION_STATE_TOPIC"

\* the values settings.MQTT_QOS can be configured to
QosLevels == 0 .. 2

\* the argument values __main__ can be started with
Commands == {"start", "stop", "restart"}

(***************************************************************************)
(* Python values: None, int, str and dict, in one uniform record shape.    *)
(***************************************************************************)
EmptyDict == [k \in {} |-> 0]

None == [t |-> "none", n |-> 0, s |-> "", d |-> EmptyDict]
PyInt(x) == [t |-> "int", n |-> x, s |-> "", d |-> EmptyDict]
PyStr(x) == [t |-> "str", n |-> 0, s |-> x, d |-> EmptyDict]
PyDict(f) == [t |-> "dict", n |-> 0, s |-> "", d |-> f]
\* a local that has not been assigned yet
Unset == [t |-> "unset", n |-> 0, s |-> "", d |-> EmptyDict]

\* dict.get(key, default)
dict_get(dict, key, default) ==
    IF key \in DOMAIN dict THEN dict[key] ELSE default

(***************************************************************************)
(* json.dumps of a flat dict whose values are ints or None.  The text is   *)
(* a sequence of tokens: punctuation, the pieces of a quoted string, and   *)
(* the characters of a number.  A dict literal is a sequence of            *)
(* [k, v] items in insertion order.                                        *)
(***************************************************************************)
Digit(i) == CASE i = 0 -> "0" [] i = 1 -> "1" [] i = 2 -> "2" [] i = 3 -> "3"
              [] i = 4 -> "4" [] i = 5 -> "5" [] i = 6 -> "6" [] i = 7 -> "7"
              [] i = 8 -> "8" [] i = 9 -> "9"

RECURSIVE NatDigits(_)
NatDigits(n) ==
    IF n < 10 THEN <<Digit(n)>>
    ELSE NatDigits(n \div 10) \o <<Digit(n % 10)>>

IntDigits(n) == IF n < 0 THEN <<"-">> \o NatDigits(-n) ELSE NatDigits(n)

json_value(v) ==
    CASE v.t = "none" -> <<"null">>
      [] v.t = "int" -> IntDigits(v.n)
      [] v.t = "str" -> <<"\"", v.s, "\"">>

RECURSIVE json_items(_)
json_items(items) ==
    IF items = <<>> THEN <<>>
    ELSE <<"\"", Head(items).k, "\"", ":">> \o json_value(Head(items).v)
         \o (IF Len(items) > 1 THEN <<",">> ELSE <<>>)
         \o json_items(Tail(items))

json_dumps(items) == <<"{">> \o json_items(items) \o <<"}">>

(***************************************************************************)
(* The Device Data Source: what cs.CSClient().get(key) can answer.  A      *)
(* reply is None or a dict that may hold a 'data' value.                   *)
(***************************************************************************)
\* GPS readings: both coordinates, the same two the other way round, one
\* coordinate missing, no coordinate at all
GpsDicts ==
    { ("longitude" :> PyInt(-97)) @@ ("latitude" :> PyInt(32)),
      ("longitude" :> PyInt(32)) @@ ("latitude" :> PyInt(-97)),
      ("longitude" :> PyInt(-97)),
      EmptyDict }

Reply(v) == PyDict([k \in {"data"} |-> v])
NoDataReply == PyDict(EmptyDict)

GpsReplies ==
    {None, NoDataReply, Reply(None), Reply(PyStr("nofix"))}
    \cup {Reply(PyDict(g)) : g \in GpsDicts}
ModemReplies == {None, NoDataReply, Reply(PyInt(55))}
WanReplies == {None, NoDataReply, Reply(PyStr("connected"))}

(***************************************************************************)
(* State.                                                                  *)
(***************************************************************************)
VARIABLES
    opt,            \* args.opt.strip(), the lifecycle command
    settings,       \* the configuration module, loaded once
    mainPc,         \* position of the main thread
    gps_lastpos,    \* publish_thread local: the 'data' of the GPS reply
    gps_pos,        \* publish_thread local: the dict literal of line 95
    modem_temp,     \* publish_thread local
    wan_connection_state,   \* publish_thread local
    published,      \* publish.single / publish.multiple calls that went out
                    \* in the current cycle, oldest first
    cycleReads,     \* what cs.CSClient().get answered in the current cycle
    mqttPc,         \* position of the broker thread
    mqtt_client,    \* the global client: None or its registered callbacks
    connState,      \* the long-lived session's connection
    attempts,       \* CONNECT packets the session has sent
    subscribeCalls, \* client.subscribe calls, by kind of connect result
    lastSubscribe,  \* the topics argument of the latest client.subscribe
    subResult,      \* how the latest client.subscribe of this connection ended
    pendingSub,     \* a SUBSCRIBE awaits its SUBACK
    subscribed,     \* (topic, qos) pairs the broker holds for the session
    connects,       \* CONNACKs received, by kind of result
    sessionSent,    \* kinds of packet sent over the long-lived session
    mqttLog         \* the call site of the broker thread's latest log line

mainVars == <<opt, settings, mainPc>>
pubVars == <<gps_lastpos, gps_pos, modem_temp, wan_connection_state, published,
             cycleReads>>
mqttVars == <<mqttPc, mqtt_client, connState, attempts, subscribeCalls,
              lastSubscribe, subResult, pendingSub, subscribed, connects,
              sessionSent, mqttLog>>
vars == <<mainVars, pubVars, mqttVars>>

\* no data source read has been made yet in the cycle
NoReads == [gps |-> Unset, modem |-> Unset, wan |-> Unset]

Init ==
    /\ opt \in Commands
    /\ settings \in [MQTT_QOS : QosLevels]
    /\ mainPc = "main"
    /\ gps_lastpos = Unset
    /\ gps_pos = <<>>
    /\ modem_temp = Unset
    /\ wan_connection_state = Unset
    /\ published = <<>>
    /\ cycleReads = NoReads
    /\ mqttPc = "unborn"
    /\ mqtt_client = {}
    /\ connState = "new"
    /\ attempts = 0
    /\ subscribeCalls = [ok |-> 0, refused |-> 0]
    /\ lastSubscribe = <<>>
    /\ subResult = "none"
    /\ pendingSub = FALSE
    /\ subscribed = {}
    /\ connects = [ok |-> 0, refused |-> 0]
    /\ sessionSent = {}
    /\ mqttLog = "none"

(***************************************************************************)
(* __main__, action, start_router_app, stop_router_app.                    *)
(***************************************************************************)
\* lines 185-190: an unknown command is logged and the process exits
Main ==
    /\ mainPc = "main"
    /\ mainPc' = IF opt \notin {"start", "stop"} THEN "exited" ELSE "action"
    /\ UNCHANGED <<opt, settings, pubVars, mqttVars>>

\* action() taking every command it is given for 'start'
Action_any_starts ==
    /\ mainPc = "action"
    /\ mainPc' = "start_router_app"
    /\ UNCHANGED <<opt, settings, pubVars, mqttVars>>

\* action(command)
Action ==
    /\ mainPc = "action"
    /\ mainPc' = CASE opt = "start" -> "start_router_app"
                   [] opt = "stop" -> "stop_router_app"
                   [] OTHER -> "app_exiting"
    /\ UNCHANGED <<opt, settings, pubVars, mqttVars>>

\* stop_router_app(): logs and returns
StopRouterApp ==
    /\ mainPc = "stop_router_app"
    /\ mainPc' = "app_exiting"
    /\ UNCHANGED <<opt, settings, pubVars, mqttVars>>

\* line 192: log.debug('App is exiting')
AppExiting ==
    /\ mainPc = "app_exiting"
    /\ mainPc' = "exited"
    /\ UNCHANGED <<opt, settings, pubVars, mqttVars>>

\* start_router_app(): start the broker thread, then call publish_thread()
StartRouterApp ==
    /\ mainPc = "start_router_app"
    /\ mqttPc' = "start_mqtt"
    /\ mainPc' = "publish_thread"
    /\ UNCHANGED <<opt, settings, pubVars, mqtt_client, connState, attempts,
                   subscribeCalls, lastSubscribe, subResult, pendingSub,
                   subscribed, connects, sessionSent, mqttLog>>

(***************************************************************************)
(* publish_thread(): one iteration of the while True loop is a cycle.      *)
(***************************************************************************)
PublisherPcs == {"read_gps", "publish_single", "read_modem", "publish_multiple",
                 "sleep", "except"}

\* the two coordinates taken from each other's key
gps_pos_swapped(lastpos) ==
    <<[k |-> "logitude", v |-> dict_get(lastpos.d, "latitude", None)],
      [k |-> "latitude", v |-> dict_get(lastpos.d, "longitude", None)]>>

\* lines 95-96: the record built from the GPS reading
gps_pos_of(lastpos) ==
    <<[k |-> "logitude", v |-> dict_get(lastpos.d, "longitude", None)],
      [k |-> "latitude", v |-> dict_get(lastpos.d, "latitude", None)]>>

\* lines 106-107: the batch of (topic, payload, qos, retain) tuples
msgs_of(temp, wan) ==
    <<[topic |-> MODEM_TEMP_TOPIC, payload |-> temp,
       qos |-> settings.MQTT_QOS, retain |-> FALSE],
      [topic |-> WAN_CONNECTION_STATE_TOPIC, payload |-> wan,
       qos |-> settings.MQTT_QOS, retain |-> FALSE]>>

\* publishing through the long-lived client instead: mqtt_client.publish
publish_single_via_client(topic, payload, qos) ==
    <<[fn |-> "single", client |-> "mqtt_client",
       msgs |-> <<[topic |-> topic, payload |-> payload, qos |-> qos,
                   retain |-> FALSE]>>]>>

\* publish.single(topic, payload, qos, hostname, port): one connection of its
\* own, one message (retain defaults to False), disconnect
publish_single(topic, payload, qos) ==
    <<[fn |-> "single", client |-> "ephemeral",
       msgs |-> <<[topic |-> topic, payload |-> payload, qos |-> qos,
                   retain |-> FALSE]>>]>>

\* one publish.single per message of the batch, each on a connection of its own
publish_multiple_split(batch) ==
    [i \in 1 .. Len(batch) |->
        [fn |-> "single", client |-> "ephemeral", msgs |-> <<batch[i]>>]]

\* publish.multiple(msgs, hostname, port): one connection of its own, all the
\* messages, disconnect
publish_multiple(batch) ==
    <<[fn |-> "multiple", client |-> "ephemeral", msgs |-> batch]>>

\* packets that a sequence of publish calls puts on the long-lived session
SessionPackets(calls) ==
    {"PUBLISH" : i \in {j \in 1 .. Len(calls) : calls[j].client = "mqtt_client"}}

\* a try/except around each step alone: the cycle carries on with the next step
on_exception_continue(step) ==
    CASE step = "read_gps" -> "publish_single"
      [] step = "publish_single" -> "read_modem"
      [] step = "read_modem" -> "publish_multiple"
      [] step = "publish_multiple" -> "sleep"

\* the try/except of lines 93-113: where an exception raised by a step of the
\* cycle takes the thread
on_exception(step) == "except"

\* the handler leaving the loop (a break) after it has logged
after_except_break == "outer_sleep"

\* the handler re-raising after it has logged, as start_mqtt's handler does
after_except_reraise == "terminated"

\* lines 112-113 and the while True of line 92: after the handler has logged
after_except == "read_gps"

\* line 91, entering the loop
PublishThread ==
    /\ mainPc = "publish_thread"
    /\ mainPc' = "read_gps"
    /\ UNCHANGED <<opt, settings, pubVars, mqttVars>>

\* lines 94-96
ReadGps(reply) ==
    /\ mainPc = "read_gps"
    \* None.get and str.get raise AttributeError
    /\ CASE reply.t # "dict" ->
               /\ mainPc' = on_exception("read_gps")
               /\ UNCHANGED <<gps_lastpos, gps_pos>>
          [] reply.t = "dict" /\ dict_get(reply.d, "data", None).t # "dict" ->
               /\ mainPc' = on_exception("read_gps")
               /\ gps_lastpos' = dict_get(reply.d, "data", None)
               /\ UNCHANGED gps_pos
          [] OTHER ->
               /\ mainPc' = "publish_single"
               /\ gps_lastpos' = dict_get(reply.d, "data", None)
               /\ gps_pos' = gps_pos_of(gps_lastpos')
    /\ cycleReads' = [cycleReads EXCEPT !.gps = reply]
    /\ UNCHANGED <<opt, settings, modem_temp, wan_connection_state,
                   published, mqttPc, mqtt_client, connState,
                   attempts, subscribeCalls, lastSubscribe, subResult,
                   pendingSub, subscribed, connects, sessionSent, mqttLog>>

\* lines 99-100; the call raises when the broker cannot be reached
PublishSingle(ok) ==
    /\ mainPc = "publish_single"
    /\ LET calls == IF ok
                    THEN publish_single(GPS_TOPIC, json_dumps(gps_pos),
                                        settings.MQTT_QOS)
                    ELSE <<>>
       IN  /\ published' = published \o calls
           /\ sessionSent' = sessionSent \cup SessionPackets(calls)
    /\ mainPc' = IF ok THEN "read_modem" ELSE on_exception("publish_single")
    /\ UNCHANGED <<opt, settings, gps_lastpos, gps_pos, modem_temp, wan_connection_state,
                   cycleReads, mqttPc, mqtt_client, connState, attempts,
                   subscribeCalls, lastSubscribe, subResult, pendingSub,
                   subscribed, connects, mqttLog>>

\* a read that keeps the value of the cycle before when the reply has no 'data'
wan_state_cached(reply) ==
    IF "data" \in DOMAIN reply.d THEN reply.d["data"] ELSE wan_connection_state

\* line 104: .get('data') of the WAN reply
wan_state_of(reply) == dict_get(reply.d, "data", None)

\* the modem temperature read as the WAN state is, with no default
modem_temp_no_default(reply) == dict_get(reply.d, "data", None)

\* line 103: .get('data', '') of the modem reply
modem_temp_of(reply) == dict_get(reply.d, "data", PyStr(""))

\* lines 103-104
ReadModemWan(mreply, wreply) ==
    /\ mainPc = "read_modem"
    /\ LET temp == modem_temp_of(mreply)
           wan == wan_state_of(wreply)
       IN  CASE mreply.t # "dict" ->
                  /\ mainPc' = on_exception("read_modem")
                  /\ cycleReads' = [cycleReads EXCEPT !.modem = mreply]
                  /\ UNCHANGED <<modem_temp, wan_connection_state>>
             [] mreply.t = "dict" /\ wreply.t # "dict" ->
                  /\ mainPc' = on_exception("read_modem")
                  /\ cycleReads' = [cycleReads EXCEPT !.modem = mreply,
                                                      !.wan = wreply]
                  /\ modem_temp' = temp
                  /\ UNCHANGED wan_connection_state
             [] OTHER ->
                  /\ mainPc' = "publish_multiple"
                  /\ cycleReads' = [cycleReads EXCEPT !.modem = mreply,
                                                      !.wan = wreply]
                  /\ modem_temp' = temp
                  /\ wan_connection_state' = wan
    /\ UNCHANGED <<opt, settings, gps_lastpos, gps_pos, published, mqttVars>>

\* lines 106-109
PublishMultiple(ok) ==
    /\ mainPc = "publish_multiple"
    /\ LET msgs == msgs_of(modem_temp, wan_connection_state)
           calls == IF ok THEN publish_multiple(msgs) ELSE <<>>
       IN  /\ published' = published \o calls
           /\ sessionSent' = sessionSent \cup SessionPackets(calls)
    /\ mainPc' = IF ok THEN "sleep" ELSE on_exception("publish_multiple")
    /\ UNCHANGED <<opt, settings, gps_lastpos, gps_pos, modem_temp, wan_connection_state,
                   cycleReads, mqttPc, mqtt_client, connState, attempts,
                   subscribeCalls, lastSubscribe, subResult, pendingSub,
                   subscribed, connects, mqttLog>>

\* line 111: time.sleep(10) completes, then back to the top of the loop: the
\* next cycle starts
Sleep ==
    /\ mainPc = "sleep"
    /\ published' = <<>>
    /\ cycleReads' = NoReads
    /\ mainPc' = "read_gps"
    /\ UNCHANGED <<opt, settings, gps_lastpos, gps_pos, modem_temp, wan_connection_state,
                   mqttVars>>

\* lines 112-113, then back to the top of the loop: the next cycle starts
Except ==
    /\ mainPc = "except"
    /\ published' = <<>>
    /\ cycleReads' = NoReads
    /\ mainPc' = after_except
    /\ UNCHANGED <<opt, settings, gps_lastpos, gps_pos, modem_temp, wan_connection_state,
                   mqttVars>>

PublisherNext ==
    \/ PublishThread
    \/ \E reply \in GpsReplies : ReadGps(reply)
    \/ \E ok \in BOOLEAN : PublishSingle(ok)
    \/ \E mreply \in ModemReplies, wreply \in WanReplies : ReadModemWan(mreply, wreply)
    \/ \E ok \in BOOLEAN : PublishMultiple(ok)
    \/ Sleep
    \/ Except

(***************************************************************************)
(* The broker thread: start_mqtt() and the callbacks that loop_forever()   *)
(* dispatches on it.                                                       *)
(***************************************************************************)
\* CONNACK result codes: 0 is "Connection Accepted", 5 "not authorised"
ConnackCodes == {0, 5}

\* a topic list that the first subscribe uses up
Topics_consumed ==
    IF subscribeCalls.ok + subscribeCalls.refused = 0
    THEN <<<<GPS_TOPIC, settings.MQTT_QOS>>,
           <<MODEM_TEMP_TOPIC, settings.MQTT_QOS>>,
           <<WAN_CONNECTION_STATE_TOPIC, settings.MQTT_QOS>>>>
    ELSE <<>>

\* lines 51-53
Topics ==
    <<<<GPS_TOPIC, settings.MQTT_QOS>>,
      <<MODEM_TEMP_TOPIC, settings.MQTT_QOS>>,
      <<WAN_CONNECTION_STATE_TOPIC, settings.MQTT_QOS>>>>

Outcome(rc) == IF rc = 0 THEN "ok" ELSE "refused"

Count(counter, kind) == [counter EXCEPT ![kind] = @ + 1]

\* on_connect subscribing on the first connection only
on_connect_first_only(rc, subscribe_raises) ==
    /\ mqttLog' = "on_connect: connection results"
    /\ mqttPc' = "loop_forever"
    /\ IF subscribeCalls.ok + subscribeCalls.refused = 0
       THEN /\ lastSubscribe' = <<<<GPS_TOPIC, settings.MQTT_QOS>>,
                                  <<MODEM_TEMP_TOPIC, settings.MQTT_QOS>>,
                                  <<WAN_CONNECTION_STATE_TOPIC, settings.MQTT_QOS>>>>
            /\ subscribeCalls' = [subscribeCalls EXCEPT ![IF rc = 0 THEN "ok" ELSE "refused"] = @ + 1]
            /\ subResult' = "sent"
            /\ pendingSub' = (rc = 0)
            /\ sessionSent' = IF rc = 0 THEN sessionSent \cup {"SUBSCRIBE"}
                              ELSE sessionSent
       ELSE /\ subResult' = "none"
            /\ pendingSub' = FALSE
            /\ UNCHANGED <<lastSubscribe, subscribeCalls, sessionSent>>

\* on_connect without the try/except around client.subscribe: the exception
\* leaves the callback and loop_forever()
on_connect_no_try(rc, subscribe_raises) ==
    /\ lastSubscribe' = <<<<GPS_TOPIC, settings.MQTT_QOS>>,
                          <<MODEM_TEMP_TOPIC, settings.MQTT_QOS>>,
                          <<WAN_CONNECTION_STATE_TOPIC, settings.MQTT_QOS>>>>
    /\ subscribeCalls' = [subscribeCalls EXCEPT ![IF rc = 0 THEN "ok" ELSE "refused"] = @ + 1]
    /\ mqttLog' = "on_connect: connection results"
    /\ IF subscribe_raises
       THEN /\ subResult' = "raised"
            /\ pendingSub' = FALSE
            /\ mqttPc' = "start_mqtt_except"
            /\ UNCHANGED sessionSent
       ELSE /\ subResult' = "sent"
            /\ pendingSub' = (rc = 0)
            /\ mqttPc' = "loop_forever"
            /\ sessionSent' = IF rc = 0 THEN sessionSent \cup {"SUBSCRIBE"}
                              ELSE sessionSent

\* on_connect(client, userdata, flags, rc); subscribe_raises is whether
\* client.subscribe(topics) raises in this call
on_connect(rc, subscribe_raises) ==
    /\ lastSubscribe' = Topics
    /\ subscribeCalls' = Count(subscribeCalls, Outcome(rc))
    /\ IF subscribe_raises
       THEN /\ subResult' = "raised"
            /\ mqttLog' = "on_connect: Client Subscribe exception"
            /\ pendingSub' = FALSE
            /\ UNCHANGED sessionSent
       ELSE /\ subResult' = "sent"
            /\ mqttLog' = "on_connect: connection results"
            \* on a refused connection the SUBSCRIBE is queued and the socket
            \* closes before it is written
            /\ pendingSub' = (rc = 0)
            /\ sessionSent' = IF rc = 0 THEN sessionSent \cup {"SUBSCRIBE"}
                              ELSE sessionSent
    /\ mqttPc' = "loop_forever"

\* on_message(client, userdata, msg): logs msg.topic and msg.payload
on_message(topic) ==
    mqttLog' = "on_message: Published msg received"

\* on_publish (lines 77-78) is registered too, but paho calls it only for a
\* publish made through mqtt_client, and the program makes none

\* on_subscribe(client, userdata, mid, granted_qos)
on_subscribe ==
    mqttLog' = "on_subscribe: Subscribe response"

\* lines 119-125: create the client and register the callbacks
StartMqtt(raises) ==
    /\ mqttPc = "start_mqtt"
    /\ IF raises
       THEN /\ mqttPc' = "start_mqtt_except"
            /\ UNCHANGED mqtt_client
       ELSE /\ mqttPc' = "connect"
            /\ mqtt_client' = {"on_connect", "on_message", "on_publish",
                               "on_subscribe"}
    /\ UNCHANGED <<mainVars, pubVars, connState, attempts, subscribeCalls,
                   lastSubscribe, subResult, pendingSub, subscribed, connects,
                   sessionSent, mqttLog>>

\* lines 127-128: mqtt_client.connect(server, port) opens the socket and sends
\* CONNECT, or raises
MqttConnect(raises) ==
    /\ mqttPc = "connect"
    /\ IF raises
       THEN /\ mqttPc' = "start_mqtt_except"
            /\ UNCHANGED <<connState, attempts, sessionSent>>
       ELSE /\ mqttPc' = "loop_forever"
            /\ connState' = "connecting"
            /\ attempts' = attempts + 1
            /\ sessionSent' = sessionSent \cup {"CONNECT"}
    /\ UNCHANGED <<mainVars, pubVars, mqtt_client, subscribeCalls,
                   lastSubscribe, subResult, pendingSub, subscribed, connects,
                   mqttLog>>

\* a handler that starts start_mqtt() over instead of re-raising
StartMqttExcept_retry ==
    /\ mqttPc = "start_mqtt_except"
    /\ mqttLog' = "start_mqtt: Exception in start_mqtt()"
    /\ mqttPc' = "start_mqtt"
    /\ UNCHANGED <<mainVars, pubVars, mqtt_client, connState, attempts,
                   subscribeCalls, lastSubscribe, subResult, pendingSub,
                   subscribed, connects, sessionSent>>

\* lines 134-136: log and re-raise, which ends the thread
StartMqttExcept ==
    /\ mqttPc = "start_mqtt_except"
    /\ mqttLog' = "start_mqtt: Exception in start_mqtt()"
    /\ mqttPc' = "dead"
    /\ UNCHANGED <<mainVars, pubVars, mqtt_client, connState, attempts, subscribeCalls, lastSubscribe, subResult, pendingSub,
                   subscribed, connects, sessionSent>>

\* loop_forever() reads a CONNACK and calls on_connect; the session is a clean
\* session, so the broker holds no subscription for it yet
Connack(rc, subscribe_raises) ==
    /\ mqttPc = "loop_forever"
    /\ connState = "connecting"
    /\ "on_connect" \in mqtt_client
    /\ connState' = IF rc = 0 THEN "connected" ELSE "refused"
    /\ connects' = Count(connects, Outcome(rc))
    /\ subscribed' = {}
    /\ on_connect(rc, subscribe_raises)
    /\ UNCHANGED <<mainVars, pubVars, mqtt_client, attempts>>

\* loop_forever() reads the SUBACK and calls on_subscribe
SubAck ==
    /\ mqttPc = "loop_forever"
    /\ connState = "connected"
    /\ pendingSub
    /\ "on_subscribe" \in mqtt_client
    /\ pendingSub' = FALSE
    /\ subscribed' = {lastSubscribe[i] : i \in 1 .. Len(lastSubscribe)}
    /\ on_subscribe
    /\ UNCHANGED <<mainVars, pubVars, mqttPc, mqtt_client, connState, attempts,
                   subscribeCalls, lastSubscribe, subResult, connects,
                   sessionSent>>

\* loop_forever() reads an inbound PUBLISH and calls on_message
Message(topic) ==
    /\ mqttPc = "loop_forever"
    /\ connState = "connected"
    /\ "on_message" \in mqtt_client
    /\ on_message(topic)
    /\ UNCHANGED <<mainVars, pubVars, mqttPc, mqtt_client, connState, attempts,
                   subscribeCalls, lastSubscribe, subResult, pendingSub,
                   subscribed, connects, sessionSent>>

\* the network drops the connection
ConnectionLost ==
    /\ mqttPc = "loop_forever"
    /\ connState = "connected"
    /\ connState' = "disconnected"
    /\ subscribed' = {}
    /\ pendingSub' = FALSE
    /\ subResult' = "none"
    /\ UNCHANGED <<mainVars, pubVars, mqttPc, mqtt_client, attempts, subscribeCalls, lastSubscribe, connects, sessionSent, mqttLog>>

\* loop_forever() reconnects after a lost or refused connection
Reconnect ==
    /\ mqttPc = "loop_forever"
    /\ connState \in {"disconnected", "refused"}
    /\ attempts < MaxConnects
    /\ connState' = "connecting"
    /\ attempts' = attempts + 1
    /\ subResult' = "none"
    /\ pendingSub' = FALSE
    /\ UNCHANGED <<mainVars, pubVars, mqttPc, mqtt_client, subscribeCalls,
                   lastSubscribe, subscribed, connects, sessionSent, mqttLog>>

\* loop_forever() raises (a socket or protocol error it does not handle)
LoopRaise ==
    /\ mqttPc = "loop_forever"
    /\ mqttPc' = "start_mqtt_except"
    /\ UNCHANGED <<mainVars, pubVars, mqtt_client, connState, attempts, subscribeCalls, lastSubscribe, subResult, pendingSub,
                   subscribed, connects, sessionSent, mqttLog>>

MqttNext ==
    \/ \E raises \in BOOLEAN : StartMqtt(raises)
    \/ \E raises \in BOOLEAN : MqttConnect(raises)
    \/ StartMqttExcept
    \/ \E rc \in ConnackCodes, subscribe_raises \in BOOLEAN :
           Connack(rc, subscribe_raises)
    \/ SubAck
    \/ \E topic \in {GPS_TOPIC, MODEM_TEMP_TOPIC, WAN_CONNECTION_STATE_TOPIC} :
           Message(topic)
    \/ ConnectionLost
    \/ Reconnect
    \/ LoopRaise

MainNext == Main \/ Action \/ StopRouterApp \/ AppExiting \/ StartRouterApp

Next == MainNext \/ PublisherNext \/ MqttNext

Spec == Init /\ [][Next]_vars

\* the publisher's steps are blocking calls that return: the main thread is
\* always scheduled again
FairSpec == Spec /\ WF_vars(PublisherNext)

(***************************************************************************)
(* C1: a cycle that fails still completes the sleep before the next cycle  *)
(* starts: the exception handler is never followed directly by the start   *)
(* of a cycle.                                                             *)
(***************************************************************************)
C1_FailedCycleSleepsBeforeNext ==
    [][(mainPc = "except") => (mainPc' # "read_gps")]_vars

(***************************************************************************)
(* C2: every successful connect event issues exactly one subscribe         *)
(* request, for exactly the three topics, each at MQTT_QOS: the number of  *)
(* subscribe requests issued for successful connects equals the number of  *)
(* successful connect events.                                              *)
(***************************************************************************)
C2_OneSubscribePerConnect ==
    /\ subscribeCalls.ok = connects.ok
    /\ subscribeCalls.ok + subscribeCalls.refused > 0 =>
         /\ Len(lastSubscribe) = 3
         /\ {lastSubscribe[i] : i \in 1 .. Len(lastSubscribe)} =
              {GPS_TOPIC, MODEM_TEMP_TOPIC, WAN_CONNECTION_STATE_TOPIC}
              \X {settings.MQTT_QOS}

\* the session has connected, lost the connection and connected again
C2_Witness ==
    /\ connects.ok = 2
    /\ subscribeCalls.ok = 2
    /\ connState = "connected"

(***************************************************************************)
(* C3: no exception raised inside a cycle leaves publish_thread: once in   *)
(* the loop the main thread stays in it, and after every failed cycle a    *)
(* further cycle begins.                                                   *)
(***************************************************************************)
C3_PublisherNeverTerminates ==
    /\ [][(mainPc \in PublisherPcs) => (mainPc' \in PublisherPcs)]_vars
    /\ (mainPc = "except") ~> (mainPc = "read_gps")

\* a cycle failed at the GPS read and a further cycle has begun
C3_Witness ==
    /\ mainPc = "read_gps"
    /\ gps_lastpos = None

(***************************************************************************)
(* C4: between the starts of any two consecutive cycles a full sleep step  *)
(* occurs, on every path through the cycle: inside the loop, a cycle       *)
(* starts only as the sleep completes.                                     *)
(***************************************************************************)
C4_SleepBetweenCycleStarts ==
    [][(mainPc \in PublisherPcs /\ mainPc # "read_gps" /\ mainPc' = "read_gps")
          => (mainPc = "sleep")]_vars

(***************************************************************************)
(* C5: when client.subscribe raises in on_connect for an accepted          *)
(* connection, the error is logged inside the callback, the broker thread  *)
(* stays in loop_forever(), the connection stays open with no              *)
(* subscription, and an inbound message is still dispatched to on_message. *)
(***************************************************************************)
C5_SubscribeErrorSwallowed ==
    /\ [][(subResult' = "raised" /\ connects'.ok = connects.ok + 1)
            => /\ mqttPc' = "loop_forever"
               /\ connState' = "connected"
               /\ subscribed' = {}
               /\ ~pendingSub'
               /\ mqttLog' = "on_connect: Client Subscribe exception"]_vars
    /\ [](subResult = "raised" /\ connState = "connected" /\ mqttPc = "loop_forever"
            => /\ subscribed = {}
               /\ "on_message" \in mqtt_client
               /\ ENABLED Message(GPS_TOPIC))

\* subscribe raised on an accepted connection and a message was handled after
C5_Witness ==
    /\ subResult = "raised"
    /\ connState = "connected"
    /\ mqttPc = "loop_forever"
    /\ mqttLog = "on_message: Published msg received"

(***************************************************************************)
(* C6: modem temperature and WAN state go out together, in one batch call  *)
(* over one ephemeral connection, each with retain = false: no call        *)
(* carries only one of them and no cycle has two calls carrying them.      *)
(***************************************************************************)
BatchTopics == {MODEM_TEMP_TOPIC, WAN_CONNECTION_STATE_TOPIC}

CarriesBatchTopic(call) ==
    \E i \in 1 .. Len(call.msgs) : call.msgs[i].topic \in BatchTopics

C6_BatchPublishedTogether ==
    /\ \A c \in 1 .. Len(published) :
         CarriesBatchTopic(published[c]) =>
           /\ published[c].fn = "multiple"
           /\ published[c].client = "ephemeral"
           /\ Len(published[c].msgs) = 2
           /\ published[c].msgs[1].topic = MODEM_TEMP_TOPIC
           /\ published[c].msgs[2].topic = WAN_CONNECTION_STATE_TOPIC
           /\ \A i \in 1 .. 2 : published[c].msgs[i].retain = FALSE
    /\ Cardinality({c \in 1 .. Len(published) : CarriesBatchTopic(published[c])}) <= 1

\* the batch of a cycle has gone out
C6_Witness ==
    /\ mainPc = "sleep"
    /\ \E c \in 1 .. Len(published) : CarriesBatchTopic(published[c])

(***************************************************************************)
(* Reading a JSON text back, as a subscriber to the GPS topic does:        *)
(* json.loads of a flat object whose values are numbers or null.           *)
(***************************************************************************)
DigitVal(c) == CHOOSE i \in 0 .. 9 : Digit(i) = c

RECURSIVE ParseNat(_, _)
ParseNat(toks, acc) ==
    IF toks = <<>> THEN acc
    ELSE ParseNat(Tail(toks), 10 * acc + DigitVal(Head(toks)))

ParseValue(toks) ==
    CASE toks = <<"null">> -> None
      [] Head(toks) = "-" -> PyInt(0 - ParseNat(Tail(toks), 0))
      [] OTHER -> PyInt(ParseNat(toks, 0))

\* index of the first "," or "}" of toks
ValueEnd(toks) == CHOOSE e \in 1 .. Len(toks) :
    /\ toks[e] \in {",", "}"}
    /\ \A j \in 1 .. e - 1 : toks[j] \notin {",", "}"}

\* toks starts at the opening quote of a key
RECURSIVE ParseItems(_)
ParseItems(toks) ==
    LET rest == SubSeq(toks, 5, Len(toks))
        e == ValueEnd(rest)
        item == [k |-> toks[2], v |-> ParseValue(SubSeq(rest, 1, e - 1))]
    IN  IF rest[e] = "," THEN <<item>> \o ParseItems(SubSeq(rest, e + 1, Len(rest)))
        ELSE <<item>>

json_loads(text) ==
    IF text = <<"{", "}">> THEN <<>>
    ELSE ParseItems(Tail(text))

(***************************************************************************)
(* C7: for a GPS reading {longitude: x, latitude: y}, the message on       *)
(* GPS_TOPIC in that cycle is the record with exactly the two keys         *)
(* 'logitude' = x and 'latitude' = y.                                      *)
(***************************************************************************)
C7_GpsPayloadPassesThrough ==
    \A c \in 1 .. Len(published) : \A i \in 1 .. Len(published[c].msgs) :
        (/\ published[c].msgs[i].topic = GPS_TOPIC
         /\ gps_lastpos.t = "dict"
         /\ {"longitude", "latitude"} \subseteq DOMAIN gps_lastpos.d)
        => json_loads(published[c].msgs[i].payload) =
             <<[k |-> "logitude", v |-> gps_lastpos.d["longitude"]],
               [k |-> "latitude", v |-> gps_lastpos.d["latitude"]]>>

\* the reading {longitude: -97, latitude: 32} has been published
C7_Witness ==
    /\ mainPc = "read_modem"
    /\ gps_lastpos = PyDict(("longitude" :> PyInt(-97)) @@ ("latitude" :> PyInt(32)))
    /\ Len(published) = 1
    /\ published[1].msgs[1].topic = GPS_TOPIC

C9_NoSubscribeOnRefusedConnect == subscribeCalls.refused = 0

(***************************************************************************)
(* C10: the steps of a cycle occur in the order GPS read, GPS publish,     *)
(* modem and WAN read, batch publish, sleep; a failure abandons the rest   *)
(* of the cycle, so the batch goes out only after the GPS publish of the   *)
(* same cycle and a cycle whose GPS read is absent publishes nothing.      *)
(***************************************************************************)
CycleOrder ==
    {<<"read_gps", "publish_single">>, <<"publish_single", "read_modem">>,
     <<"read_modem", "publish_multiple">>, <<"publish_multiple", "sleep">>,
     <<"sleep", "read_gps">>,
     <<"read_gps", "except">>, <<"publish_single", "except">>,
     <<"read_modem", "except">>, <<"publish_multiple", "except">>,
     <<"except", "read_gps">>}

IsGpsPublish(call) ==
    /\ call.fn = "single"
    /\ call.msgs[1].topic = GPS_TOPIC

C10_CycleStepsInOrder ==
    /\ [][(mainPc \in PublisherPcs /\ mainPc' # mainPc)
            => (<<mainPc, mainPc'>> \in CycleOrder)]_vars
    /\ [](/\ Len(published) <= 2
          /\ Len(published) >= 1 => IsGpsPublish(published[1])
          /\ Len(published) = 2 => published[2].fn = "multiple"
          /\ mainPc \in {"read_gps", "publish_single"} => published = <<>>
          /\ mainPc \in {"read_modem", "publish_multiple"} => Len(published) = 1
          /\ mainPc = "sleep" => Len(published) = 2
          /\ (mainPc \in PublisherPcs /\ mainPc # "read_gps" /\ gps_lastpos.t # "dict")
               => published = <<>>)

\* a cycle published its GPS record and then failed: no batch went out
C10_Witness ==
    /\ mainPc = "except"
    /\ Len(published) = 1
    /\ IsGpsPublish(published[1])

(***************************************************************************)
(* C11: an exception in the broker thread (client setup, connect or the    *)
(* network loop) is logged and re-raised and ends that thread only: the    *)
(* step changes nothing of the main thread, the thread is never started    *)
(* again, and the publisher goes on to begin further cycles.               *)
(***************************************************************************)
C11_BrokerThreadDiesAlone ==
    /\ [][(mqttPc = "start_mqtt_except" /\ mqttPc' # mqttPc)
            => /\ mqttPc' = "dead"
               /\ mqttLog' = "start_mqtt: Exception in start_mqtt()"
               /\ UNCHANGED <<mainVars, pubVars>>]_vars
    /\ [][(mqttPc = "dead") => (mqttPc' = "dead")]_vars
    /\ (mqttPc = "dead") ~> (mqttPc = "dead" /\ mainPc = "read_gps")

\* the broker thread died before it sent a CONNECT and the publisher has
\* carried a cycle through to its sleep
C11_Witness ==
    /\ mqttPc = "dead"
    /\ attempts = 0
    /\ mainPc = "sleep"

(***************************************************************************)
(* C12: every value published in a cycle is the value the data source      *)
(* answered in that same cycle, never one read in an earlier cycle.        *)
(***************************************************************************)
C12_PublishedValuesAreFresh ==
    \A c \in 1 .. Len(published) : \A i \in 1 .. Len(published[c].msgs) :
        LET msg == published[c].msgs[i]
        IN  /\ msg.topic = GPS_TOPIC =>
                 /\ cycleReads.gps.t = "dict"
                 /\ dict_get(cycleReads.gps.d, "data", None).t = "dict"
                 /\ json_loads(msg.payload) =
                      <<[k |-> "logitude",
                         v |-> dict_get(cycleReads.gps.d["data"].d, "longitude", None)],
                        [k |-> "latitude",
                         v |-> dict_get(cycleReads.gps.d["data"].d, "latitude", None)]>>
            /\ msg.topic = MODEM_TEMP_TOPIC =>
                 /\ cycleReads.modem.t = "dict"
                 /\ msg.payload = dict_get(cycleReads.modem.d, "data", PyStr(""))
            /\ msg.topic = WAN_CONNECTION_STATE_TOPIC =>
                 /\ cycleReads.wan.t = "dict"
                 /\ msg.payload = dict_get(cycleReads.wan.d, "data", None)

\* a cycle has published a GPS record while the locals still hold the modem
\* temperature and WAN state that an earlier cycle read
C12_Witness ==
    /\ mainPc = "read_modem"
    /\ Len(published) = 1
    /\ cycleReads.modem = Unset
    /\ modem_temp = PyInt(55)
    /\ wan_connection_state = PyStr("connected")

(***************************************************************************)
(* C13: 'stop' and any unrecognized command change nothing: no broker      *)
(* thread, no publisher loop, no connect, subscribe or publish; only       *)
(* 'start' starts the broker thread and the publisher loop.                *)
(***************************************************************************)
C13_OnlyStartStartsAnything ==
    opt # "start" =>
        /\ mainPc \in {"main", "action", "stop_router_app", "app_exiting", "exited"}
        /\ mqttPc = "unborn"
        /\ mqtt_client = {}
        /\ connState = "new"
        /\ attempts = 0
        /\ sessionSent = {}
        /\ subscribeCalls = [ok |-> 0, refused |-> 0]
        /\ subscribed = {}
        /\ published = <<>>
        /\ cycleReads = NoReads

\* 'stop' has run to the end of the process
C13_Witness ==
    /\ opt = "stop"
    /\ mainPc = "exited"

(***************************************************************************)
(* C14: subscribing is idempotent across reconnects: whatever the number   *)
(* of successful connects, the session's subscriptions are the fixed       *)
(* three topics at MQTT_QOS once the subscribe request is acknowledged,    *)
(* and never anything else.                                                *)
(***************************************************************************)
FixedSubscriptions ==
    {GPS_TOPIC, MODEM_TEMP_TOPIC, WAN_CONNECTION_STATE_TOPIC} \X {settings.MQTT_QOS}

HasNoData(reply) == reply.t = "dict" /\ "data" \notin DOMAIN reply.d

C15_AbsentDataAsymmetry ==
    /\ [][(mainPc = "read_modem" /\ cycleReads'.modem.t = "dict"
           /\ cycleReads'.wan.t = "dict")
            => /\ mainPc' = "publish_multiple"
               /\ HasNoData(cycleReads'.modem) => modem_temp' = PyStr("")
               /\ HasNoData(cycleReads'.wan) => wan_connection_state' = None]_vars
    /\ [](/\ (mainPc = "sleep" /\ HasNoData(cycleReads.modem))
               => published[2].msgs[1].payload = PyStr("")
          /\ (mainPc = "sleep" /\ HasNoData(cycleReads.wan))
               => published[2].msgs[2].payload = None
          /\ HasNoData(cycleReads.gps)
               => (mainPc = "except" /\ published = <<>>))

\* the batch went out in a cycle whose modem and WAN replies had no 'data'
C15_Witness ==
    /\ mainPc = "sleep"
    /\ HasNoData(cycleReads.modem)
    /\ HasNoData(cycleReads.wan)
    /\ Len(published) = 2

====
